---- MODULE Spec2Model ----
(***************************************************************************)
(* Model of the wormhole circuit crates:                                   *)
(*   - wormhole/aggregator/src/circuit.rs  (recursive proof aggregator)    *)
(*   - circuit/src/storage_proof.rs        (storage proof circuit)         *)
(* The two components share no state; each has its own specification       *)
(* (AggSpec, SPSpec) over the variables it owns.                           *)
(***************************************************************************)
EXTENDS Integers, Sequences, FiniteSets, TLC

\* ------------------------------------------------------------------------
\* Bounds of the model (not program constants)
\* ------------------------------------------------------------------------

\* The aggregator's const generic N, instantiated.
AggN == 2

\* Number of public inputs of the inner circuit (its common data), per proof.
NumInnerPis == 2

\* Longest raw storage proof the ledger hands over (one more than fits).
MaxNodes == 21

\* ------------------------------------------------------------------------
\* State
\* ------------------------------------------------------------------------
VARIABLES
    \* --- aggregator (WormholeProofAggregatorInner<N>) ---
    dummy_decodes,     \* whether DUMMY_PROOF_BYTES decodes in this build
    num_proofs,        \* self.num_proofs
    proofs,            \* self.proofs
    call,              \* the last set_proofs call: argument, result, state before
    \* --- aggregator circuit builder / targets / witness ---
    agg_builder,       \* CircuitBuilder: virtual wire groups, constraints, public inputs
    agg_targets,       \* WormholeProofAggregatorTargets<N>, or NoTargets
    agg_pw,            \* PartialWitness handed to fill_targets
    agg_fill,          \* result of the last fill_targets: "none" | "Ok" | "Err"
    \* --- storage proof: the ledger that produces the raw proof ---
    poseidon,          \* the hash function's graph on the preimages hashed so far
    ledger,            \* raw proof nodes (prefix, suffix), root first
    leaf,              \* the leaf inputs committed to by the trie
    \* --- storage proof: circuit, instance, witness ---
    pc,                \* position in the build / fill / prove sequence
    tamper,            \* how the input of StorageProof::new departs from the ledger's
    sp,                \* the StorageProof, or NoSP
    sp_builder,        \* CircuitBuilder: allocated targets and emitted constraints
    sp_pw,             \* PartialWitness written by fill_targets
    sp_fill,           \* result of fill_targets
    sp_prove           \* outcome of witness generation against the constraints

aggVars == <<dummy_decodes, num_proofs, proofs, call, agg_builder, agg_targets,
             agg_pw, agg_fill>>

spVars == <<poseidon, ledger, leaf, pc, tamper, sp, sp_builder, sp_pw,
            sp_fill, sp_prove>>

vars == <<aggVars, spVars>>

\* ------------------------------------------------------------------------
\* Aggregator: values
\* ------------------------------------------------------------------------

\* A ProofWithPublicInputs: an identity and its public inputs.  shape_ok is
\* whether the public inputs have the shape of the inner circuit.
Proof(id, ok) == [id |-> id, pis |-> [j \in 1..NumInnerPis |-> <<id, j>>], shape_ok |-> ok]

\* Proofs a caller may hand to set_proofs.
RealProofs == {Proof("p1", TRUE), Proof("p2", FALSE)}

\* ProofWithPublicInputs::from_bytes(DUMMY_PROOF_BYTES, common), when it decodes.
dummy_proof == Proof("dummy", TRUE)

RECURSIVE SeqsUpTo(_, _)
SeqsUpTo(S, n) ==
    IF n = 0 THEN {<<>>}
    ELSE LET shorter == SeqsUpTo(S, n - 1)
         IN  shorter \cup {Append(s, x) : s \in {t \in shorter : Len(t) = n - 1}, x \in S}

\* Arguments of set_proofs: every list of up to N + 1 proofs.
ProofLists == SeqsUpTo(RealProofs, AggN + 1)

Repeat(x, n) == [i \in 1..n |-> x]

RECURSIVE Flatten(_)
Flatten(ss) == IF ss = <<>> THEN <<>> ELSE Head(ss) \o Flatten(Tail(ss))

NoTargets == [built |-> FALSE]
NoCall == [res |-> "none"]

\* ------------------------------------------------------------------------
\* Aggregator: operations
\* ------------------------------------------------------------------------

\* builder.add_virtual_proof_with_pis: a fresh proof wire group with its own
\* public-input wires.  Groups are numbered in allocation order.
ProofGroup(g) == [group |-> g, public_inputs |-> [j \in 1..NumInnerPis |-> <<g, j>>]]

\* WormholeProofAggregatorTargets::new.  The loop pushes N groups into a Vec
\* that is then shadowed by an array of N further groups; only the array is
\* kept in the targets.
Targets_new ==
    /\ ~agg_targets.built
    /\ LET base   == Len(agg_builder.proof_groups)
           pushed == [i \in 1..AggN |-> ProofGroup(base + i)]
           array  == [i \in 1..AggN |-> ProofGroup(base + AggN + i)]
       IN  /\ agg_builder' = [agg_builder EXCEPT
                                !.verifier_data = TRUE,
                                !.proof_groups = agg_builder.proof_groups \o pushed \o array]
           /\ agg_targets' = [built |-> TRUE, verifier_data |-> TRUE, proofs |-> array]
    /\ UNCHANGED <<dummy_decodes, num_proofs, proofs, call, agg_pw, agg_fill>>
    /\ UNCHANGED spVars

\* WormholeProofAggregatorInner::circuit: one verify_proof per target group.
\* Nothing is registered as a public input of the outer circuit.
Agg_circuit ==
    /\ agg_targets.built
    /\ ~agg_builder.circuit_built
    /\ agg_builder' = [agg_builder EXCEPT
                         !.circuit_built = TRUE,
                         !.verified = [i \in 1..Len(agg_targets.proofs) |->
                                          agg_targets.proofs[i].group]]
    /\ UNCHANGED <<dummy_decodes, num_proofs, proofs, call, agg_targets, agg_pw, agg_fill>>
    /\ UNCHANGED spVars

\* (variant: the fields are assigned before the length check)
set_proofs_mut(ps) ==
    LET n == Len(ps) IN
    IF ~dummy_decodes
        THEN [res |-> "ErrDecode", num |-> n, proofs |-> ps]
    ELSE IF n > AggN
        THEN [res |-> "ErrTooMany", num |-> n, proofs |-> ps]
    ELSE [res |-> "Ok", num |-> n, proofs |-> ps \o Repeat(dummy_proof, AggN - n)]

\* (variant: the given proofs are appended to the stored ones, one pad short)
set_proofs_nopad(ps) ==
    LET n == Len(ps) IN
    IF n > AggN
        THEN [res |-> "ErrTooMany", num |-> num_proofs, proofs |-> proofs]
    ELSE IF ~dummy_decodes
        THEN [res |-> "ErrDecode", num |-> n, proofs |-> ps]
    ELSE [res |-> "Ok", num |-> n, proofs |-> proofs \o ps \o Repeat(dummy_proof, AggN - n - 1)]

\* WormholeProofAggregatorInner::set_proofs: its result and the values of
\* (self.num_proofs, self.proofs) when it returns.
set_proofs(ps) ==
    LET n == Len(ps) IN
    IF n > AggN
        \* bail! before any assignment
        THEN [res |-> "ErrTooMany", num |-> num_proofs, proofs |-> proofs]
    ELSE IF ~dummy_decodes
        \* self.num_proofs and self.proofs are assigned, then from_bytes(..)? returns
        THEN [res |-> "ErrDecode", num |-> n, proofs |-> ps]
    ELSE [res |-> "Ok", num |-> n, proofs |-> ps \o Repeat(dummy_proof, AggN - n)]

SetProofs(ps) ==
    LET r == set_proofs(ps) IN
    /\ num_proofs' = r.num
    /\ proofs' = r.proofs
    /\ call' = [res |-> r.res, arg |-> ps, pre_num |-> num_proofs, pre_proofs |-> proofs]
    /\ UNCHANGED <<dummy_decodes, agg_builder, agg_targets, agg_pw, agg_fill>>
    /\ UNCHANGED spVars

\* Index of the first proof (paired with a target) that the witness rejects,
\* or 0.
FirstBad(k) ==
    LET bad == {i \in 1..k : ~proofs[i].shape_ok}
    IN  IF bad = {} THEN 0 ELSE CHOOSE i \in bad : \A j \in bad : i <= j

Min(a, b) == IF a <= b THEN a ELSE b

\* WormholeProofAggregatorInner::fill_targets on a fresh PartialWitness:
\* targets.proofs zipped with self.proofs, then the verifier data.
agg_fill_targets ==
    LET k   == Min(Len(agg_targets.proofs), Len(proofs))
        bad == FirstBad(k)
        upto == IF bad = 0 THEN k ELSE bad - 1
    IN  [res |-> IF bad = 0 THEN "Ok" ELSE "Err",
         pw  |-> [proofs |-> [g \in {agg_targets.proofs[i].group : i \in 1..upto} |->
                                 LET i == CHOOSE i \in 1..upto : agg_targets.proofs[i].group = g
                                 IN  proofs[i]],
                  verifier_data |-> (bad = 0)]]

FillTargets ==
    /\ agg_targets.built
    /\ LET r == agg_fill_targets IN
       /\ agg_pw' = r.pw
       /\ agg_fill' = r.res
    /\ UNCHANGED <<dummy_decodes, num_proofs, proofs, call, agg_builder, agg_targets>>
    /\ UNCHANGED spVars

\* A CircuitBuilder nothing has been added to, and an empty PartialWitness.
NewAggBuilder ==
    [verifier_data |-> FALSE, proof_groups |-> <<>>, verified |-> <<>>,
     public_inputs |-> <<>>, circuit_built |-> FALSE]

NewAggWitness == [proofs |-> <<>>, verifier_data |-> FALSE]

AggNext ==
    \/ Targets_new
    \/ Agg_circuit
    \/ \E ps \in ProofLists : SetProofs(ps)
    \/ FillTargets

\* ------------------------------------------------------------------------
\* Storage proof: constants
\* ------------------------------------------------------------------------
MAX_PROOF_LEN == 20
PROOF_NODE_MAX_SIZE_F == 73
LEAF_INPUTS_NUM_FELTS == 11
\* "Each 8-bytes are represented as their equivalent field element."
BYTES_PER_FELT == 8
\* A hash is 32 bytes, i.e. 4 field elements.
HASH_BYTES == 32
HASH_FELTS == 4

\* ------------------------------------------------------------------------
\* Storage proof: bytes and field elements
\* ------------------------------------------------------------------------
\* A field element is written as its base-256 numeral, least significant digit
\* first, without high-order zero digits; ZERO is the empty numeral.
ZERO == <<>>

RECURSIVE StripZeros(_)
StripZeros(s) ==
    IF s = <<>> \/ s[Len(s)] # 0 THEN s ELSE StripZeros(SubSeq(s, 1, Len(s) - 1))

\* utils::bytes_to_felts: each group of 8 bytes (the last one may be shorter)
\* read as a little-endian number.
bytes_to_felts(bytes) ==
    LET n == (Len(bytes) + BYTES_PER_FELT - 1) \div BYTES_PER_FELT
    IN  [k \in 1..n |->
            StripZeros(SubSeq(bytes, BYTES_PER_FELT * (k - 1) + 1,
                              Min(BYTES_PER_FELT * k, Len(bytes))))]

\* F::from_canonical_usize / F::from_canonical_u32
RECURSIVE from_canonical(_)
from_canonical(n) == IF n = 0 THEN ZERO ELSE <<n % 256>> \o from_canonical(n \div 256)

\* The number a (small) field element stands for.
RECURSIVE FeltToNat(_)
FeltToNat(f) == IF f = <<>> THEN 0 ELSE f[1] + 256 * FeltToNat(Tail(f))

\* The 8 little-endian bytes of a field element, as a ledger writes a hash
\* into a trie node.
FeltBytes(f) == f \o Repeat(0, BYTES_PER_FELT - Len(f))

HashBytes(h) == Flatten([y \in 1..HASH_FELTS |-> FeltBytes(h[y])])

\* Byte-wise exclusive or (the ^= of the tampering tests).
RECURSIVE XorBits(_, _, _)
XorBits(a, b, n) ==
    IF n = 0 THEN 0
    ELSE ((a + b) % 2) + 2 * XorBits(a \div 2, b \div 2, n - 1)

Xor(a, b) == XorBits(a, b, 8)

\* ------------------------------------------------------------------------
\* Storage proof: the hash
\* ------------------------------------------------------------------------
\* PoseidonHash is taken as collision free: the variable poseidon lists the
\* preimages hashed by the ledger, the k-th one hashing to Digest(k); a
\* preimage the ledger never hashed hashes to a value no byte string encodes.
Digest(k) == [y \in 1..HASH_FELTS |-> <<k, y>>]

Unqueried == [y \in 1..HASH_FELTS |-> <<256, y>>]

\* builder.hash_n_to_hash_no_pad::<PoseidonHash>(x), evaluated
hash_n_to_hash_no_pad(x) ==
    LET ks == {k \in 1..Len(poseidon) : poseidon[k] = x}
    IN  IF ks = {} THEN Unqueried ELSE Digest(CHOOSE k \in ks : TRUE)

\* ------------------------------------------------------------------------
\* Storage proof: the ledger producing raw proofs
\* ------------------------------------------------------------------------
\* Node layouts: prefix bytes, then the child hash, then trailing bytes.  A
\* branch node fits a node slot; a fat node is one byte too long for it.
Shapes ==
    [ branch |-> [left |-> <<159, 2, 38, 18, 0, 0, 0, 0, 9>>, tail |-> <<128, 0>>],
      fat    |-> [left |-> Repeat(7, BYTES_PER_FELT * PROOF_NODE_MAX_SIZE_F - HASH_BYTES + 1),
                  tail |-> <<>>] ]

\* Whether every node of a raw proof encodes into at most a slot.
FitsSlots(proof) ==
    \A i \in 1..Len(proof) :
        Len(proof[i].left) + Len(proof[i].right) <= BYTES_PER_FELT * PROOF_NODE_MAX_SIZE_F

\* SubstrateAccount / UnspendableAccount as their 4 field elements.
AccountOf(b) == bytes_to_felts(Repeat(b, HASH_BYTES))

\* LeafInputs::default-like honest values.
HonestLeaf ==
    [nonce |-> from_canonical(1),
     funding_account |-> AccountOf(3),
     to_account |-> AccountOf(5),
     funding_amount |-> <<from_canonical(1000), ZERO>>]

\* A node's encoding as the trie hashes it: zero padded to the slot size.
PadNode(felts) ==
    felts \o Repeat(ZERO, PROOF_NODE_MAX_SIZE_F - Min(Len(felts), PROOF_NODE_MAX_SIZE_F))

\* The order of the leaf inputs in the hash preimage.
LeafFelts(l) == <<l.nonce>> \o l.funding_account \o l.to_account \o l.funding_amount

\* The hash the chain currently ends in at the top: the root hash.
LedgerRoot == HashBytes(Digest(Len(poseidon)))

\* The ledger grows the trie path by one node above the current top.  At
\* most the top node of a path is a fat one.
LedgerExtend(shape) ==
    /\ pc = "ledger"
    /\ Len(ledger) < MaxNodes
    /\ FitsSlots(ledger)
    /\ LET node == [left |-> Shapes[shape].left,
                    right |-> LedgerRoot \o Shapes[shape].tail]
       IN  /\ ledger' = <<node>> \o ledger
           /\ poseidon' = Append(poseidon, PadNode(bytes_to_felts(node.left \o node.right)))
    /\ UNCHANGED <<leaf, pc, tamper, sp, sp_builder, sp_pw, sp_fill, sp_prove>>
    /\ UNCHANGED aggVars

\* ------------------------------------------------------------------------
\* Storage proof: targets and circuit
\* ------------------------------------------------------------------------
NoSP == [built |-> FALSE]

\* StorageProofTargets::new: the wire groups allocated on the builder.
SP_Targets_new ==
    /\ pc = "start"
    /\ sp_builder' = [sp_builder EXCEPT
                        !.targets = [proof_data |-> MAX_PROOF_LEN,
                                     node_size |-> PROOF_NODE_MAX_SIZE_F,
                                     hashes |-> MAX_PROOF_LEN,
                                     leaf_inputs |-> LEAF_INPUTS_NUM_FELTS],
                        !.public_inputs = <<"root_hash">>]
    /\ pc' = "targets"
    /\ UNCHANGED <<poseidon, ledger, leaf, tamper, sp, sp_pw, sp_fill, sp_prove>>
    /\ UNCHANGED aggVars

RECURSIVE BitLen(_)
BitLen(n) == IF n = 0 THEN 0 ELSE 1 + BitLen(n \div 2)

\* usize::BITS - (MAX_PROOF_LEN - 1).leading_zeros()
n_log == BitLen(MAX_PROOF_LEN - 1)

\* The constraints of loop iteration i (0-based), limb y.  prev names the
\* target prev_hash holds in that iteration: the root hash, then hashes[i-1].
proof_node_constraint(i, y) ==
    [gate |-> "is_proof_node", i |-> i, prev |-> i, limb |-> y]

leaf_node_constraint(i, y) ==
    [gate |-> "is_leaf_node", i |-> i, prev |-> i, limb |-> y]

\* StorageProof::circuit: for i in 0..MAX_PROOF_LEN, four gated equalities of
\* the node hash and four of the leaf hash against prev_hash.
\* (variant: the loop starts at 1)
circuit_skip_first ==
    Flatten([k \in 1..(MAX_PROOF_LEN - 1) |->
        [y \in 1..HASH_FELTS |-> proof_node_constraint(k, y)]
        \o [y \in 1..HASH_FELTS |-> leaf_node_constraint(k, y)]])

\* (variant: the node hash comparison is left out)
circuit_leaf_only ==
    Flatten([k \in 1..MAX_PROOF_LEN |->
        [y \in 1..HASH_FELTS |-> leaf_node_constraint(k - 1, y)]])

circuit ==
    Flatten([k \in 1..MAX_PROOF_LEN |->
        [y \in 1..HASH_FELTS |-> proof_node_constraint(k - 1, y)]
        \o [y \in 1..HASH_FELTS |-> leaf_node_constraint(k - 1, y)]])

SP_circuit ==
    /\ pc = "targets"
    /\ sp_builder' = [sp_builder EXCEPT !.constraints = circuit]
    /\ pc' = "ledger"
    /\ UNCHANGED <<poseidon, ledger, leaf, tamper, sp, sp_pw, sp_fill, sp_prove>>
    /\ UNCHANGED aggVars

\* ------------------------------------------------------------------------
\* Storage proof: StorageProof::new
\* ------------------------------------------------------------------------
\* bytes_to_felts(right)[..4] panics on a suffix shorter than 4 elements.
new_panics(proof) ==
    \E i \in 1..Len(proof) : Len(bytes_to_felts(proof[i].right)) < HASH_FELTS

StorageProof_new(proof, root_hash, leaf_inputs) ==
    [built |-> TRUE,
     proof |-> [i \in 1..Len(proof) |-> bytes_to_felts(proof[i].left \o proof[i].right)],
     hashes |-> [i \in 1..Len(proof) |->
                    SubSeq(bytes_to_felts(proof[i].right), 1, HASH_FELTS)],
     root_hash |-> root_hash,
     leaf_inputs |-> leaf_inputs]

New(proof, root_hash, leaf_inputs, how) ==
    /\ pc = "ledger"
    /\ \E p \in {proof} :
         IF new_panics(p)
         THEN pc' = "panicked" /\ sp' = sp
         ELSE pc' = "constructed" /\ sp' = StorageProof_new(p, root_hash, leaf_inputs)
    /\ tamper' = how
    /\ UNCHANGED <<poseidon, ledger, leaf, sp_builder, sp_pw, sp_fill, sp_prove>>
    /\ UNCHANGED aggVars

\* build_and_verify_proof: the ledger's proof as it is.
NewHonest == New(ledger, LedgerRoot, leaf, [kind |-> "none"])

\* Masks the tampering tests xor into a byte.
FlipMasks == {1, 255}

\* tampered_proof_fails / fuzz_tampered_proof: one suffix byte of one node
\* of a proof that fits the slots, xor-ed with a non-zero mask.
NewFlipped ==
    /\ pc = "ledger"
    /\ FitsSlots(ledger)
    /\ \E n \in 1..Len(ledger) : \E b \in 1..Len(ledger[n].right) : \E m \in FlipMasks :
        New([ledger EXCEPT ![n].right[b] = Xor(@, m)], LedgerRoot, leaf,
            [kind |-> "flip", node |-> n, byte |-> b, mask |-> m])

\* invalid_root_hash_fails: a root hash other than the ledger's.
WrongRoots == {Repeat(0, HASH_BYTES), HashBytes(Digest(1))} \ {LedgerRoot}

NewWrongRoot ==
    \E r \in WrongRoots : New(ledger, r, leaf, [kind |-> "root"])

\* invalid_leaf_nonce_fails / invalid_leaf_account_fails
NewWrongNonce ==
    New(ledger, LedgerRoot, [leaf EXCEPT !.nonce = from_canonical(10)], [kind |-> "nonce"])

NewWrongAccount ==
    New(ledger, LedgerRoot, [leaf EXCEPT !.to_account = AccountOf(0)], [kind |-> "account"])

\* ------------------------------------------------------------------------
\* Storage proof: fill_targets
\* ------------------------------------------------------------------------
\* Vec::resize(n, ZERO): pads, or truncates a longer vector.
Resize(v, n) ==
    IF Len(v) >= n THEN SubSeq(v, 1, n) ELSE v \o Repeat(ZERO, n - Len(v))

EMPTY_PROOF_NODE == Repeat(ZERO, PROOF_NODE_MAX_SIZE_F)

empty_hash == Repeat(ZERO, HASH_FELTS)

\* slice_to_hashout
slice_to_hashout(slice) == bytes_to_felts(slice)

\* (variant: off by one)
fill_proof_len_off(s) == from_canonical(Len(s.proof) + 1)

fill_proof_len(s) == from_canonical(Len(s.proof))

fill_proof_data(s) ==
    [i \in 1..MAX_PROOF_LEN |->
        IF i <= Len(s.proof) THEN Resize(s.proof[i], PROOF_NODE_MAX_SIZE_F)
        ELSE EMPTY_PROOF_NODE]

\* StorageProof::fill_targets: the witness it writes.
fill_targets(s) ==
    [root_hash |-> slice_to_hashout(s.root_hash),
     proof_len |-> fill_proof_len(s),
     proof_data |-> fill_proof_data(s),
     hashes |-> [i \in 1..MAX_PROOF_LEN |->
                    IF i <= Len(s.hashes) THEN SubSeq(s.hashes[i], 1, HASH_FELTS)
                    ELSE empty_hash],
     leaf_inputs |-> LeafFelts(s.leaf_inputs)]

SP_FillTargets ==
    /\ pc = "constructed"
    /\ sp_pw' = fill_targets(sp)
    /\ sp_fill' = "Ok"
    /\ pc' = "filled"
    /\ UNCHANGED <<poseidon, ledger, leaf, tamper, sp, sp_builder, sp_prove>>
    /\ UNCHANGED aggVars

\* ------------------------------------------------------------------------
\* Storage proof: the constraints evaluated on the witness
\* ------------------------------------------------------------------------
\* gadgets::is_const_less_than(builder, lhs, rhs, n_log): 1 iff lhs < rhs, for
\* operands of at most n_log bits.
is_const_less_than(lhs, rhs, bits) == IF lhs < FeltToNat(rhs) THEN 1 ELSE 0

\* builder.is_equal(proof_len, index)
is_equal(a, b) == IF a = b THEN 1 ELSE 0

\* connect(mul(sub(a, b), selector), zero) in a field: holds iff the selector
\* is zero or a = b.
GatedEqual(a, b, selector) == selector = 0 \/ a = b

\* The hash wires witness generation derives from the filled targets:
\* leaf_hash and each iteration's computed_hash.
Generated(pw) ==
    [leaf_hash |-> hash_n_to_hash_no_pad(pw.leaf_inputs),
     computed_hash |-> [i \in 1..MAX_PROOF_LEN |-> hash_n_to_hash_no_pad(pw.proof_data[i])]]

Satisfied(c, pw, gen) ==
    LET prev_hash == IF c.prev = 0 THEN pw.root_hash ELSE pw.hashes[c.prev]
    IN  IF c.gate = "is_proof_node"
        THEN GatedEqual(gen.computed_hash[c.i + 1][c.limb], prev_hash[c.limb],
                        is_const_less_than(c.i, pw.proof_len, n_log))
        ELSE GatedEqual(gen.leaf_hash[c.limb], prev_hash[c.limb],
                        is_equal(pw.proof_len, from_canonical(c.i)))

\* Whether constraints cs all hold on witness pw.
AllSatisfied(cs, pw) ==
    \A gen \in {Generated(pw)} : \A k \in 1..Len(cs) : Satisfied(cs[k], pw, gen)

\* build_and_prove_test: witness generation succeeds iff every constraint
\* holds on the filled witness.
Prove ==
    /\ pc = "filled"
    /\ sp_prove' = IF AllSatisfied(sp_builder.constraints, sp_pw) THEN "ok" ELSE "fail"
    /\ pc' = "done"
    /\ UNCHANGED <<poseidon, ledger, leaf, tamper, sp, sp_builder, sp_pw, sp_fill>>
    /\ UNCHANGED aggVars

NewSPBuilder ==
    [targets |-> [proof_data |-> 0, node_size |-> 0, hashes |-> 0, leaf_inputs |-> 0],
     public_inputs |-> <<>>, constraints |-> <<>>]

NewSPWitness ==
    [root_hash |-> <<>>, proof_len |-> ZERO, proof_data |-> <<>>, hashes |-> <<>>,
     leaf_inputs |-> <<>>]

SPNext ==
    \/ SP_Targets_new
    \/ SP_circuit
    \/ \E shape \in DOMAIN Shapes : LedgerExtend(shape)
    \/ NewHonest
    \/ NewFlipped
    \/ NewWrongRoot
    \/ NewWrongNonce
    \/ NewWrongAccount
    \/ SP_FillTargets
    \/ Prove

\* ------------------------------------------------------------------------
\* Specifications
\* ------------------------------------------------------------------------
\* Both components start freshly constructed; a specification moves one of
\* them and leaves the other as constructed.

\* WormholeProofAggregatorInner::new(config); whether the dummy proof bytes
\* decode against the common data depends on the config the caller passes.
AggInit ==
    /\ dummy_decodes \in BOOLEAN
    /\ num_proofs = 0
    /\ proofs = <<>>
    /\ call = NoCall
    /\ agg_builder = NewAggBuilder
    /\ agg_targets = NoTargets
    /\ agg_pw = NewAggWitness
    /\ agg_fill = "none"
    /\ leaf = HonestLeaf
    /\ poseidon = <<LeafFelts(HonestLeaf)>>
    /\ ledger = <<>>
    /\ pc = "start"
    /\ tamper = [kind |-> "none"]
    /\ sp = NoSP
    /\ sp_builder = NewSPBuilder
    /\ sp_pw = NewSPWitness
    /\ sp_fill = "none"
    /\ sp_prove = "none"

\* The ledger holds one leaf, hashed; no circuit, instance or witness yet.
SPInit ==
    /\ leaf = HonestLeaf
    /\ poseidon = <<LeafFelts(HonestLeaf)>>
    /\ ledger = <<>>
    /\ pc = "start"
    /\ tamper = [kind |-> "none"]
    /\ sp = NoSP
    /\ sp_builder = NewSPBuilder
    /\ sp_pw = NewSPWitness
    /\ sp_fill = "none"
    /\ sp_prove = "none"
    /\ dummy_decodes = TRUE
    /\ num_proofs = 0
    /\ proofs = <<>>
    /\ call = NoCall
    /\ agg_builder = NewAggBuilder
    /\ agg_targets = NoTargets
    /\ agg_pw = NewAggWitness
    /\ agg_fill = "none"

AggSpec == AggInit /\ [][AggNext]_vars

SPSpec == SPInit /\ [][SPNext]_vars

\* ------------------------------------------------------------------------
\* Properties of the aggregator (checked under AggSpec)
\* ------------------------------------------------------------------------

\* C1: set_proofs called with more than N proofs returns the "too many" error
\* and leaves self.proofs and self.num_proofs as they were before the call.
C1_TooManyRejected ==
    (call.res # "none" /\ Len(call.arg) > AggN) =>
        /\ call.res = "ErrTooMany"
        /\ num_proofs = call.pre_num
        /\ proofs = call.pre_proofs

\* C1 witness: a rejected call on an aggregator that already holds a batch.
C1_Witness ==
    /\ call.res = "ErrTooMany"
    /\ Len(call.arg) > AggN
    /\ num_proofs > 0
    /\ Len(proofs) = AggN

\* C2: when the last set_proofs call got k <= N proofs and returned Ok, the
\* stored list is the k proofs in order followed by N - k dummy proofs, it has
\* N entries, num_proofs = k, and nothing of an earlier call remains.
C2_OkStoresPadded ==
    call.res = "Ok" =>
        /\ Len(call.arg) <= AggN
        /\ num_proofs = Len(call.arg)
        /\ Len(proofs) = AggN
        /\ proofs = call.arg \o Repeat(dummy_proof, AggN - Len(call.arg))

\* C2 witness: a successful call with 0 < k < N proofs replacing an earlier,
\* different batch.
C2_Witness ==
    /\ call.res = "Ok"
    /\ Len(call.arg) \in 1..(AggN - 1)
    /\ call.pre_num > 0
    /\ call.pre_proofs # proofs
    /\ proofs[AggN] = dummy_proof

\* C7: the outer circuit's public inputs are the concatenation, in slot
\* order, of the public inputs of the N verified slots.
C7_OuterPublicInputs ==
    agg_builder.circuit_built =>
        agg_builder.public_inputs =
            Flatten([i \in 1..Len(agg_targets.proofs) |-> agg_targets.proofs[i].public_inputs])

\* C8: whenever fill_targets returns Ok, every proof wire group that
\* Targets::new allocated on the builder has a proof assigned, and so have
\* the verifier-data wires.
C8_AllGroupsAssigned ==
    agg_fill = "Ok" =>
        /\ \A i \in 1..Len(agg_builder.proof_groups) :
               agg_builder.proof_groups[i].group \in DOMAIN agg_pw.proofs
        /\ agg_pw.verifier_data

\* C10: on every error return of set_proofs the stored list and num_proofs
\* are as before the call, and the stored list has length 0 or N.
C10_ErrorsLeaveState ==
    /\ call.res \in {"ErrTooMany", "ErrDecode"} =>
           (num_proofs = call.pre_num /\ proofs = call.pre_proofs)
    /\ Len(proofs) \in {0, AggN}

\* ------------------------------------------------------------------------
\* Properties of the storage proof circuit (checked under SPSpec)
\* ------------------------------------------------------------------------

\* Every encoded node of s fits a node slot and there are at most
\* MAX_PROOF_LEN of them.
WellSized(s) ==
    /\ Len(s.proof) <= MAX_PROOF_LEN
    /\ \A i \in 1..Len(s.proof) : Len(s.proof[i]) <= PROOF_NODE_MAX_SIZE_F

\* Node 1 hashes to the root and each next node to the child hash embedded in
\* the node above it.
ChainsFromRoot(s) ==
    /\ Len(s.proof) >= 1 =>
           hash_n_to_hash_no_pad(PadNode(s.proof[1])) = slice_to_hashout(s.root_hash)
    /\ \A i \in 1..(Len(s.proof) - 1) :
           hash_n_to_hash_no_pad(PadNode(s.proof[i + 1])) = s.hashes[i]

\* The hash the chain ends in: the child hash of the last node, or the root.
ChainEnd(s) ==
    IF Len(s.proof) = 0 THEN slice_to_hashout(s.root_hash) ELSE s.hashes[Len(s.proof)]

HonestProof(s) ==
    /\ WellSized(s)
    /\ ChainsFromRoot(s)
    /\ hash_n_to_hash_no_pad(LeafFelts(s.leaf_inputs)) = ChainEnd(s)

\* The proof the ledger handed over, before any tampering, is honest.
LedgerProofHonest == \A orig \in {StorageProof_new(ledger, LedgerRoot, leaf)} : HonestProof(orig)

\* C3: for an honest storage proof of length 0..20, fill_targets returns Ok
\* and the filled witness satisfies every constraint of the circuit.
C3_HonestProves ==
    (pc = "done" /\ HonestProof(sp)) => (sp_fill = "Ok" /\ sp_prove = "ok")

\* C3 witness: an honest proof of the maximum length, proved.
C3_Witness ==
    /\ pc = "done"
    /\ HonestProof(sp)
    /\ Len(sp.proof) = MAX_PROOF_LEN
    /\ sp_prove = "ok"

\* C4: for a proof of length 0..20 whose nodes chain from the root, a wrong
\* leaf nonce or destination account makes the constraints unsatisfied.
C4_WrongLeafFails ==
    (/\ pc = "done"
     /\ tamper.kind \in {"nonce", "account"}
     /\ WellSized(sp)
     /\ ChainsFromRoot(sp)
     /\ hash_n_to_hash_no_pad(LeafFelts(sp.leaf_inputs)) # ChainEnd(sp))
        => sp_prove = "fail"

\* C5: flipping a single suffix byte of any node of an honest proof makes a
\* gated hash equality fail.
C5_FlippedByteFails ==
    (pc = "done" /\ tamper.kind = "flip" /\ LedgerProofHonest) => sp_prove = "fail"

\* C5 witness: a flip of a suffix byte that lies after the embedded hash, in
\* a node that is not the first, rejected.
C5_Witness ==
    /\ pc = "done"
    /\ tamper.kind = "flip"
    /\ LedgerProofHonest
    /\ tamper.byte > HASH_BYTES
    /\ tamper.node > 1
    /\ sp_prove = "fail"

\* C6: for an otherwise honest proof of length 0..20, a root hash other than
\* the chain's actual root makes the constraints unsatisfied.
C6_WrongRootFails ==
    (/\ pc = "done"
     /\ tamper.kind = "root"
     /\ LedgerProofHonest
     /\ sp.root_hash # LedgerRoot)
        => sp_prove = "fail"

\* C6 witness: a wrong root with an empty proof (the root must then be the
\* leaf hash), rejected.
C6_Witness ==
    /\ pc = "done"
    /\ tamper.kind = "root"
    /\ LedgerProofHonest
    /\ Len(sp.proof) = 0
    /\ sp.root_hash # LedgerRoot
    /\ sp_prove = "fail"

\* C9: fill_targets assigns proof_len the number of nodes; slot i below it
\* gets the node's whole encoding followed by zeros up to 73 elements and the
\* first 4 elements of its suffix; slots from proof_len to 20 get zeros; so
\* there are at most 20 nodes and each encoding has at most 73 elements.
C9_FillKeepsEveryElement ==
    pc \in {"filled", "done"} =>
        /\ sp_pw.proof_len = from_canonical(Len(sp.proof))
        /\ Len(sp.proof) <= MAX_PROOF_LEN
        /\ \A i \in 1..Len(sp.proof) :
               /\ Len(sp.proof[i]) <= PROOF_NODE_MAX_SIZE_F
               /\ i <= MAX_PROOF_LEN =>
                      /\ sp_pw.proof_data[i] =
                             sp.proof[i] \o Repeat(ZERO, PROOF_NODE_MAX_SIZE_F - Len(sp.proof[i]))
                      /\ sp_pw.hashes[i] = sp.hashes[i]
        /\ \A i \in (Len(sp.proof) + 1)..MAX_PROOF_LEN :
               /\ sp_pw.proof_data[i] = Repeat(ZERO, PROOF_NODE_MAX_SIZE_F)
               /\ sp_pw.hashes[i] = Repeat(ZERO, HASH_FELTS)

====
